---- MODULE Spec2Model ----
(***************************************************************************)
(* Task scheduling and execution engine of the data platform               *)
(* (src/task_management.h): Task, TaskComparator and TaskManager, with the *)
(* algorithms of src/algorithm_module.h that a task invokes.               *)
(*                                                                         *)
(* Threads: API callers (submitTask, getTaskStatus, getTaskResult,         *)
(* cancelTask, shutdown) and the worker threads (workerFunction).          *)
(* Everything done while holding mutex_ and touching only data that is     *)
(* always accessed under mutex_ is one step.  Task::execute runs without   *)
(* the mutex, so each of its field writes is a step of its own, and        *)
(* cancelTask, which reads and then writes the same fields under the       *)
(* mutex, is two steps (read, write) that a worker's writes can separate.  *)
(***************************************************************************)
EXTENDS Naturals, Sequences, FiniteSets, TLC

\* ------------------------------------------------------------------ bounds
MaxTasks == 2
MaxQueued == 3
MaxQueried == 1
OrderWorkers == 1
NumWorkers == 2
MaxTime == 2

TaskIds == 1..(MaxTasks + MaxQueued)

\* ------------------------------------------------------------------ enums
LOW == 0
MEDIUM == 1
HIGH == 2
CRITICAL == 3
TaskPriority == {LOW, MEDIUM, HIGH, CRITICAL}

TaskStatus == {"CREATED", "QUEUED", "RUNNING", "COMPLETED", "FAILED", "CANCELLED"}
Terminal == {"COMPLETED", "FAILED", "CANCELLED"}
NonTerminal == TaskStatus \ Terminal

ResultStatus == {"SUCCESS", "FAILURE", "PENDING", "PROCESSING"}

\* Result(): status PENDING, empty message, data and timestamp.
NewResult == [status |-> "PENDING", message |-> "", data |-> "", timestamp |-> ""]

\* A Result an algorithm builds: no algorithm calls setTimestamp.
MkResult(s, m, d) == [status |-> s, message |-> m, data |-> d, timestamp |-> ""]

\* ------------------------------------------------------------- algorithms
\* config.parameters and parameters_ hold (key, value) pairs, one per key.
NoParams == {}

\* std::stoi on the parameter strings the callers use: a decimal string
\* converts, anything else throws std::invalid_argument.
StoiThrows(s) == s \notin {"2", "3", "100"}

Stoi(s) == CASE s = "2" -> 2
             [] s = "3" -> 3
             [] s = "100" -> 100

\* parameters_ of a freshly constructed algorithm.
NewAlgorithm(type) ==
    IF type = "KMeansClustering"
    THEN [k |-> "3", maxIterations |-> "100"]
    ELSE [k |-> "", maxIterations |-> ""]

\* BaseAlgorithm::setParameter for every entry of config.parameters.
SetParameters(algParams, parameters) ==
    [key \in DOMAIN algParams |->
        IF \E p \in parameters : p[1] = key
        THEN (CHOOSE p \in parameters : p[1] = key)[2]
        ELSE algParams[key]]

\* initialize(): BaseAlgorithm returns true; KMeans parses k and maxIterations.
Initialize(type, algParams) ==
    IF type = "KMeansClustering"
    THEN ~StoiThrows(algParams.k) /\ ~StoiThrows(algParams.maxIterations)
    ELSE TRUE

SupportedKind(type) == IF type = "TextAnalysis" THEN "TEXT" ELSE "NUMERIC"

\* IAlgorithm implementations that a plugin supplies (IAlgorithmPlugin::
\* createAlgorithm), named by what their execute does: return a Result that is
\* neither SUCCESS nor FAILURE, throw an exception derived from std::exception,
\* or throw an object of any other type.
PluginAlgorithms == {"ReturnsPending", "ReturnsProcessing", "RaisesStd", "RaisesOther"}

\* What execute(dataset) throws: "none", "std" (derived from std::exception)
\* or "other".  The algorithms of algorithm_module.h throw nothing.
Raises(type) ==
    CASE type = "RaisesStd" -> "std"
      [] type = "RaisesOther" -> "other"
      [] OTHER -> "none"

\* what() of the exception a plugin's execute throws.
PluginError == "plugin failure"

\* execute(dataset) of the algorithms, as a Result value.
Execute(type, algParams, dataset) ==
    IF type = "ReturnsPending"
    THEN MkResult("PENDING", "not started", "")
    ELSE IF type = "ReturnsProcessing"
    THEN MkResult("PROCESSING", "still processing", "")
    ELSE IF dataset.kind # SupportedKind(type)
    THEN MkResult("FAILURE", "Dataset type mismatch", "")
    ELSE IF type = "KMeansClustering"
    THEN IF dataset.size < Stoi(algParams.k)
         THEN MkResult("FAILURE", "Not enough data points for k clusters", "")
         ELSE MkResult("SUCCESS", "", "K-means Clustering Results")
    ELSE IF dataset.size = 0
    THEN MkResult("FAILURE", "Empty dataset", "")
    ELSE IF type = "StatisticalAnalysis"
    THEN MkResult("SUCCESS", "", "Statistical Analysis Results")
    ELSE MkResult("SUCCESS", "", "Text Analysis Results")

\* ----------------------------------------------------------------- inputs
\* What the callers submit: algorithm, dataset and parameters.
Requests ==
    { [alg |-> "StatisticalAnalysis", dataset |-> [kind |-> "NUMERIC", size |-> 5],
       parameters |-> NoParams],
      [alg |-> "KMeansClustering", dataset |-> [kind |-> "NUMERIC", size |-> 5],
       parameters |-> {<<"k", "x">>}],
      [alg |-> "TextAnalysis", dataset |-> [kind |-> "NUMERIC", size |-> 5],
       parameters |-> NoParams] }

\* ------------------------------------------------------------------ state
VARIABLES
    counter,        \* generateTaskId's static counter
    tasks,          \* the Task objects constructed so far, by id
    submitPc,       \* where each submitTask call stands
    taskMap,        \* ids in taskMap_
    taskQueue,      \* ids in taskQueue_
    mutex,          \* holder of mutex_
    isRunning,      \* isRunning_
    activeThreads,  \* activeThreads_
    pc,             \* each worker's position in workerFunction / Task::execute
    cur,            \* each worker's local `task` (0: none)
    waiting,        \* workers blocked in condition_.wait
    shutdownPc,     \* where the shutdown() call stands
    now,            \* system_clock
    what,           \* each worker's caught exception message
    last,           \* outcome of the latest getTaskStatus/getTaskResult/cancelTask
    log,            \* history: queue insertions and removals, in order, if kept
    platform        \* PlatformManager's registrations and its latest call's outcome

vars == <<counter, tasks, submitPc, taskMap, taskQueue, mutex, isRunning,
          activeThreads, pc, cur, waiting, shutdownPc, now, what, last, log,
          platform>>

Free == [holder |-> "free", id |-> 0]

NoCall == [op |-> "none", id |-> 0, outcome |-> "none"]

\* A PlatformManager with nothing registered and no call made.
NewPlatform ==
    [ datasetFactories |-> <<>>, algorithmFactories |-> <<>>,
      returned |-> [op |-> "none", type |-> "", result |-> ""] ]

\* The history is kept only where a claim needs it.
Record(l, event) == IF l.keep THEN [l EXCEPT !.events = Append(@, event)] ELSE l

\* TaskManager(maxThreads): the pool is started, nothing is submitted.
Constructed(maxThreads, history) ==
    /\ counter = 0
    /\ tasks = <<>>
    /\ submitPc = <<>>
    /\ taskMap = {}
    /\ taskQueue = {}
    /\ mutex = Free
    /\ isRunning = TRUE
    /\ activeThreads = 0
    /\ pc = [w \in 1..maxThreads |-> "loop"]
    /\ cur = [w \in 1..maxThreads |-> 0]
    /\ waiting = {}
    /\ shutdownPc = "idle"
    /\ now = 1
    /\ what = [w \in 1..maxThreads |-> ""]
    /\ last = NoCall
    /\ log = [keep |-> history, events |-> <<>>]
    /\ platform = NewPlatform

Workers == DOMAIN pc

\* The process has not been aborted by std::terminate.
Alive == \A w \in Workers : pc[w] # "terminated"

\* ------------------------------------------------------------------ clock
Tick ==
    /\ Alive
    /\ now < MaxTime
    /\ now' = now + 1
    /\ UNCHANGED <<platform, counter, tasks, submitPc, taskMap, taskQueue, mutex, isRunning,
                   activeThreads, pc, cur, waiting, shutdownPc, what, last, log>>

\* ------------------------------------------------------------- submitTask
\* Task::Task and generateTaskId, before the lock is taken.
NewTask(id, priority, isAsync, req) ==
    [ taskId |-> id,
      priority |-> priority,
      isAsync |-> isAsync,
      parameters |-> req.parameters,
      alg |-> req.alg,
      algParams |-> NewAlgorithm(req.alg),
      calls |-> <<>>,
      dataset |-> req.dataset,
      status |-> "CREATED",
      result |-> NewResult,
      creationTime |-> now,
      startTime |-> 0,
      endTime |-> 0,
      errorMessage |-> "" ]

SubmitCreate(priority, isAsync, req, limit) ==
    /\ Alive
    /\ counter < limit
    /\ counter' = counter + 1
    /\ tasks' = Append(tasks, NewTask(counter + 1, priority, isAsync, req))
    /\ submitPc' = Append(submitPc, "created")
    /\ UNCHANGED <<platform, taskMap, taskQueue, mutex, isRunning, activeThreads, pc, cur,
                   waiting, shutdownPc, now, what, last, log>>

\* Variant without the lock_guard: the two insertions are separate critical
\* sections (C2 fails under it).
SubmitUnlocked(t) == [holder |-> "free", id |-> 0]

\* lock_guard; taskMap_[id] = task
SubmitHolder(t) == [holder |-> "submit", id |-> t]

\* Variant that refuses a task once isRunning_ is false (C29 fails under it).
SubmitLockWhileRunning(t) ==
    /\ Alive
    /\ isRunning
    /\ t \in DOMAIN tasks
    /\ submitPc[t] = "created"
    /\ mutex = Free
    /\ mutex' = [holder |-> "submit", id |-> t]
    /\ taskMap' = taskMap \cup {t}
    /\ submitPc' = [submitPc EXCEPT ![t] = "locked"]
    /\ UNCHANGED <<platform, counter, tasks, taskQueue, isRunning, activeThreads, pc, cur,
                   waiting, shutdownPc, now, what, last, log>>

SubmitLock(t) ==
    /\ Alive
    /\ t \in DOMAIN tasks
    /\ submitPc[t] = "created"
    /\ mutex = Free
    /\ mutex' = SubmitHolder(t)
    /\ taskMap' = taskMap \cup {t}
    /\ submitPc' = [submitPc EXCEPT ![t] = "locked"]
    /\ UNCHANGED <<platform, counter, tasks, taskQueue, isRunning, activeThreads, pc, cur,
                   waiting, shutdownPc, now, what, last, log>>

\* taskQueue_.push(task); end of the lock_guard's scope
SubmitPush(t) ==
    /\ Alive
    /\ t \in DOMAIN tasks
    /\ submitPc[t] = "locked"
    /\ mutex = SubmitHolder(t)
    /\ taskQueue' = taskQueue \cup {t}
    /\ log' = Record(log, <<"push", t>>)
    /\ mutex' = Free
    /\ submitPc' = [submitPc EXCEPT ![t] = "pushed"]
    /\ UNCHANGED <<platform, counter, tasks, taskMap, isRunning, activeThreads, pc, cur,
                   waiting, shutdownPc, now, what, last>>

\* Variant that honours isAsync: a synchronous submit returns only when its
\* task is terminal (C3's amended statement fails under it).
SubmitReturnSync(t) ==
    /\ Alive
    /\ t \in DOMAIN tasks
    /\ submitPc[t] = "pushed"
    /\ tasks[t].isAsync \/ tasks[t].status \in Terminal
    /\ \/ waiting = {} /\ waiting' = waiting
       \/ \E w \in waiting : waiting' = waiting \ {w}
    /\ submitPc' = [submitPc EXCEPT ![t] = "returned"]
    /\ UNCHANGED <<platform, counter, tasks, taskMap, taskQueue, mutex, isRunning,
                   activeThreads, pc, cur, shutdownPc, now, what, last, log>>

\* condition_.notify_one(); return task->getTaskId()
SubmitReturn(t) ==
    /\ Alive
    /\ t \in DOMAIN tasks
    /\ submitPc[t] = "pushed"
    /\ \/ waiting = {} /\ waiting' = waiting
       \/ \E w \in waiting : waiting' = waiting \ {w}
    /\ submitPc' = [submitPc EXCEPT ![t] = "returned"]
    /\ UNCHANGED <<platform, counter, tasks, taskMap, taskQueue, mutex, isRunning,
                   activeThreads, pc, cur, shutdownPc, now, what, last, log>>

\* --------------------------------------------------------- workerFunction
\* Variant with the tie-break reversed: the later creationTime first (C1 fails
\* under it).
TaskComparatorLatestFirst(t1, t2) ==
    IF t1.priority # t2.priority
    THEN t1.priority < t2.priority
    ELSE t1.creationTime < t2.creationTime

\* TaskComparator: t1 orders below t2 (t2 leaves the queue first).
TaskComparator(t1, t2) ==
    IF t1.priority # t2.priority
    THEN t1.priority < t2.priority
    ELSE t1.creationTime > t2.creationTime

\* taskQueue_.top(): an element no other element is ordered above.
Top(t) ==
    /\ t \in taskQueue
    /\ \A u \in taskQueue : ~TaskComparator(tasks[t], tasks[u])

WaitPredicate == ~isRunning \/ taskQueue # {}

AtLoop(w) == pc[w] = "loop" /\ w \notin waiting /\ mutex = Free

\* condition_.wait with the predicate false: release the mutex and block.
WorkerWait(w) ==
    /\ AtLoop(w)
    /\ ~WaitPredicate
    /\ waiting' = waiting \cup {w}
    /\ UNCHANGED <<platform, counter, tasks, submitPc, taskMap, taskQueue, mutex, isRunning,
                   activeThreads, pc, cur, shutdownPc, now, what, last, log>>

\* Variant that returns as soon as the flag is down, whatever is queued (C14
\* fails under it).
WorkerExitOnFlag(w) ==
    /\ AtLoop(w)
    /\ ~isRunning
    /\ pc' = [pc EXCEPT ![w] = "exited"]
    /\ UNCHANGED <<platform, counter, tasks, submitPc, taskMap, taskQueue, mutex, isRunning,
                   activeThreads, cur, waiting, shutdownPc, now, what, last, log>>

\* if (!isRunning_ && taskQueue_.empty()) return;
WorkerExit(w) ==
    /\ AtLoop(w)
    /\ ~isRunning /\ taskQueue = {}
    /\ pc' = [pc EXCEPT ![w] = "exited"]
    /\ UNCHANGED <<platform, counter, tasks, submitPc, taskMap, taskQueue, mutex, isRunning,
                   activeThreads, cur, waiting, shutdownPc, now, what, last, log>>

\* Variant without taskQueue_.pop() (C27 fails under it).
WorkerDequeueNoPop(w) ==
    /\ AtLoop(w)
    /\ \E t \in taskQueue :
        /\ Top(t)
        /\ cur' = [cur EXCEPT ![w] = t]
        /\ log' = Record(log, <<"pop", t>>)
    /\ pc' = [pc EXCEPT ![w] = "setRunning"]
    /\ UNCHANGED <<platform, counter, tasks, submitPc, taskMap, taskQueue, mutex, isRunning,
                   activeThreads, waiting, shutdownPc, now, what, last>>

\* task = taskQueue_.top(); taskQueue_.pop();
WorkerDequeue(w) ==
    /\ AtLoop(w)
    /\ \E t \in taskQueue :
        /\ Top(t)
        /\ taskQueue' = taskQueue \ {t}
        /\ cur' = [cur EXCEPT ![w] = t]
        /\ log' = Record(log, <<"pop", t>>)
    /\ pc' = [pc EXCEPT ![w] = "setRunning"]
    /\ UNCHANGED <<platform, counter, tasks, submitPc, taskMap, mutex, isRunning,
                   activeThreads, waiting, shutdownPc, now, what, last>>

\* A step of Task::execute by worker w: the task changes, the worker moves on.
ExecStep(w, from, to, newTask) ==
    /\ pc[w] = from
    /\ tasks' = [tasks EXCEPT ![cur[w]] = newTask]
    /\ pc' = [pc EXCEPT ![w] = to]
    /\ UNCHANGED <<platform, counter, submitPc, taskMap, taskQueue, mutex, isRunning,
                   waiting, shutdownPc, now, last, log>>

\* ++activeThreads_; task->execute(): status_ = TaskStatus::RUNNING
ExecSetRunning(w) ==
    /\ ExecStep(w, "setRunning", "stampStart",
                [tasks[cur[w]] EXCEPT !.status = "RUNNING"])
    /\ activeThreads' = activeThreads + 1
    /\ UNCHANGED <<cur, what>>

\* startTime_ = now()
ExecStampStart(w) ==
    /\ ExecStep(w, "stampStart", "prepare",
                [tasks[cur[w]] EXCEPT !.startTime = now])
    /\ UNCHANGED <<activeThreads, cur, what>>

\* for (param : config_.parameters) algorithm_->setParameter(...);
\* if (!algorithm_->initialize()) throw PlatformException(...)
InitializationFailed == "Algorithm initialization failed"

\* Variant that calls initialize() before the parameters are applied (C24
\* fails under it).
ExecPrepareInitializeFirst(w) ==
    LET t == tasks[cur[w]]
        ok == Initialize(t.alg, t.algParams)
    IN  /\ ExecStep(w, "prepare", IF ok THEN "execute" ELSE "catch",
                    [t EXCEPT !.algParams = SetParameters(t.algParams, t.parameters),
                              !.calls = (@ \o <<"initialize">>)
                                        \o [i \in 1..Cardinality(t.parameters)
                                               |-> "setParameter"]])
        /\ what' = [what EXCEPT ![w] = IF ok THEN @ ELSE InitializationFailed]
        /\ UNCHANGED <<activeThreads, cur>>

ExecPrepare(w) ==
    LET t == tasks[cur[w]]
        applied == SetParameters(t.algParams, t.parameters)
        ok == Initialize(t.alg, applied)
    IN  /\ ExecStep(w, "prepare", IF ok THEN "execute" ELSE "catch",
                    [t EXCEPT !.algParams = applied,
                              !.calls = (@ \o [i \in 1..Cardinality(t.parameters)
                                                 |-> "setParameter"])
                                        \o <<"initialize">>])
        /\ what' = [what EXCEPT ![w] = IF ok THEN @ ELSE InitializationFailed]
        /\ UNCHANGED <<activeThreads, cur>>

\* result_ = algorithm_->execute(dataset_): the call, and the first field of
\* the member-wise assignment; or the call throws and nothing is assigned.
ExecCall(w) ==
    LET t == tasks[cur[w]]
        r == Execute(t.alg, t.algParams, t.dataset)
        called == [t EXCEPT !.calls = Append(@, "execute")]
    IN  /\ pc[w] = "execute"
        /\ CASE Raises(t.alg) = "none" ->
                 /\ ExecStep(w, "execute", "assign",
                             [called EXCEPT !.result.status = r.status])
                 /\ UNCHANGED <<activeThreads, cur, what>>
            [] Raises(t.alg) = "std" ->
                 /\ ExecStep(w, "execute", "catch", called)
                 /\ what' = [what EXCEPT ![w] = PluginError]
                 /\ UNCHANGED <<activeThreads, cur>>
            [] Raises(t.alg) = "other" ->
                 /\ ExecStep(w, "execute", "escape", called)
                 /\ UNCHANGED <<activeThreads, cur, what>>

\* An exception that catch (const std::exception&) does not match leaves
\* Task::execute and workerFunction, the thread's function: std::terminate
\* aborts the process, and with it every worker.
ExecEscape(w) ==
    /\ pc[w] = "escape"
    /\ pc' = [v \in Workers |-> "terminated"]
    /\ UNCHANGED <<platform, counter, tasks, submitPc, taskMap, taskQueue, mutex, isRunning,
                   activeThreads, cur, waiting, shutdownPc, now, what, last, log>>

\* Variant in which the status is mapped before the rest of result_ is
\* stored: the assignment is left unfinished (C18 fails under it).
ExecAssignUnfinished(w) ==
    /\ ExecStep(w, "assign", "mapStatus", tasks[cur[w]])
    /\ UNCHANGED <<activeThreads, cur, what>>

\* the remaining fields of the assignment to result_
ExecAssign(w) ==
    LET t == tasks[cur[w]]
        r == Execute(t.alg, t.algParams, t.dataset)
    IN  /\ ExecStep(w, "assign", "mapStatus",
                    [t EXCEPT !.result.message = r.message,
                              !.result.data = r.data,
                              !.result.timestamp = r.timestamp])
        /\ UNCHANGED <<activeThreads, cur, what>>

\* Variant that takes a Result that is not FAILURE for a success (C12 fails
\* under it).
MapStatusLenient(resultStatus) ==
    IF resultStatus = "FAILURE" THEN "FAILED" ELSE "COMPLETED"

\* SUCCESS -> COMPLETED, anything else -> FAILED
MapStatus(resultStatus) == IF resultStatus = "SUCCESS" THEN "COMPLETED" ELSE "FAILED"

ExecMapStatus(w) ==
    LET t == tasks[cur[w]]
        s == MapStatus(t.result.status)
    IN  /\ ExecStep(w, "mapStatus", IF s = "COMPLETED" THEN "stampEnd" ELSE "setError",
                    [t EXCEPT !.status = s])
        /\ UNCHANGED <<activeThreads, cur, what>>

\* errorMessage_ = result_.getMessage()
ExecSetError(w) ==
    /\ ExecStep(w, "setError", "stampEnd",
                [tasks[cur[w]] EXCEPT !.errorMessage = tasks[cur[w]].result.message])
    /\ UNCHANGED <<activeThreads, cur, what>>

\* catch: status_ = TaskStatus::FAILED
ExecCatch(w) ==
    /\ ExecStep(w, "catch", "catchMessage",
                [tasks[cur[w]] EXCEPT !.status = "FAILED"])
    /\ UNCHANGED <<activeThreads, cur, what>>

\* catch: errorMessage_ = e.what()
ExecCatchMessage(w) ==
    /\ ExecStep(w, "catchMessage", "stampEnd",
                [tasks[cur[w]] EXCEPT !.errorMessage = what[w]])
    /\ what' = [what EXCEPT ![w] = ""]
    /\ UNCHANGED <<activeThreads, cur>>

\* Variant that stamps endTime_ on the path without an exception only (C25
\* fails under it).
ExecStampEndOnReturnTrue(w) ==
    /\ ExecStep(w, "stampEnd", "loop",
                [tasks[cur[w]] EXCEPT
                   !.endTime = IF tasks[cur[w]].calls[Len(tasks[cur[w]].calls)] = "execute"
                               THEN now ELSE @])
    /\ activeThreads' = activeThreads - 1
    /\ cur' = [cur EXCEPT ![w] = 0]
    /\ UNCHANGED what

\* Variant that erases the record from taskMap_ when the task has been
\* executed (C31's amended statement fails under it).
ExecStampEndErases(w) ==
    /\ pc[w] = "stampEnd"
    /\ tasks' = [tasks EXCEPT ![cur[w]].endTime = now]
    /\ taskMap' = taskMap \ {cur[w]}
    /\ pc' = [pc EXCEPT ![w] = "loop"]
    /\ activeThreads' = activeThreads - 1
    /\ cur' = [cur EXCEPT ![w] = 0]
    /\ UNCHANGED <<platform, counter, submitPc, taskQueue, mutex, isRunning,
                   waiting, shutdownPc, now, what, last, log>>

\* Variant without --activeThreads_ (C13 fails under it).
ExecStampEndNoDecrement(w) ==
    /\ ExecStep(w, "stampEnd", "loop",
                [tasks[cur[w]] EXCEPT !.endTime = now])
    /\ cur' = [cur EXCEPT ![w] = 0]
    /\ UNCHANGED <<activeThreads, what>>

\* endTime_ = now() on both paths; execute returns; --activeThreads_; loop
ExecStampEnd(w) ==
    /\ ExecStep(w, "stampEnd", "loop",
                [tasks[cur[w]] EXCEPT !.endTime = now])
    /\ activeThreads' = activeThreads - 1
    /\ cur' = [cur EXCEPT ![w] = 0]
    /\ UNCHANGED what

Worker(w) ==
    \/ WorkerWait(w)
    \/ WorkerDequeue(w)
    \/ ExecSetRunning(w)
    \/ ExecStampStart(w)
    \/ ExecPrepare(w)
    \/ ExecCall(w)
    \/ ExecAssign(w)
    \/ ExecMapStatus(w)
    \/ ExecSetError(w)
    \/ ExecCatch(w)
    \/ ExecCatchMessage(w)
    \/ ExecStampEnd(w)

\* ------------------------------------------------- getTaskStatus/getTaskResult
\* A call's outcome: "value" (the status or result read under the lock is
\* returned) or "NotFound" (PlatformException "Task not found: <id>").
Call(op, id, outcome) == [op |-> op, id |-> id, outcome |-> outcome]

\* Variant in which find never misses (C4 fails under it).
LookupAlwaysFound(id) == "value"

Lookup(id) == IF id \in taskMap THEN "value" ELSE "NotFound"

GetTaskStatus(id) ==
    /\ Alive
    /\ mutex = Free
    /\ last' = Call("getTaskStatus", id, Lookup(id))
    /\ UNCHANGED <<platform, counter, tasks, submitPc, taskMap, taskQueue, mutex, isRunning,
                   activeThreads, pc, cur, waiting, shutdownPc, now, what, log>>

GetTaskResult(id) ==
    /\ Alive
    /\ mutex = Free
    /\ last' = Call("getTaskResult", id, Lookup(id))
    /\ UNCHANGED <<platform, counter, tasks, submitPc, taskMap, taskQueue, mutex, isRunning,
                   activeThreads, pc, cur, waiting, shutdownPc, now, what, log>>

\* ------------------------------------------------------------- cancelTask
\* Variant that cancels a task that has not started (C9 fails under it).
CancellableBeforeStart(status) == status \in {"CREATED", "QUEUED", "RUNNING"}

\* Task::cancel's test of status_.
Cancellable(status) == status = "QUEUED" \/ status = "RUNNING"

CancelHolder(id) == [holder |-> "cancel", id |-> id]

\* cancelTask's outcome when it changes nothing: "false" is returned.
CancelMiss(id) == "false"

\* lock_guard; find; Task::cancel reads status_.  An id that is not in the map
\* and a status that is not cancellable end the call with false.
CancelRead(id) ==
    /\ Alive
    /\ mutex = Free
    /\ IF id \in taskMap /\ Cancellable(tasks[id].status)
       THEN /\ mutex' = CancelHolder(id)
            /\ last' = last
       ELSE /\ mutex' = Free
            /\ last' = Call("cancelTask", id, CancelMiss(id))
    /\ UNCHANGED <<platform, counter, tasks, submitPc, taskMap, taskQueue, isRunning,
                   activeThreads, pc, cur, waiting, shutdownPc, now, what, log>>

\* Variant that does not stamp endTime_ (C7 fails under it).
CancelWriteNoStamp(id) ==
    /\ Alive
    /\ mutex = [holder |-> "cancel", id |-> id]
    /\ tasks' = [tasks EXCEPT ![id].status = "CANCELLED"]
    /\ mutex' = Free
    /\ last' = [op |-> "cancelTask", id |-> id, outcome |-> "true"]
    /\ UNCHANGED <<platform, counter, submitPc, taskMap, taskQueue, isRunning,
                   activeThreads, pc, cur, waiting, shutdownPc, now, what, log>>

\* status_ = CANCELLED; endTime_ = now(); return true
CancelWrite(id) ==
    /\ Alive
    /\ mutex = CancelHolder(id)
    /\ tasks' = [tasks EXCEPT ![id].status = "CANCELLED", ![id].endTime = now]
    /\ mutex' = Free
    /\ last' = Call("cancelTask", id, "true")
    /\ UNCHANGED <<platform, counter, submitPc, taskMap, taskQueue, isRunning,
                   activeThreads, pc, cur, waiting, shutdownPc, now, what, log>>

\* --------------------------------------------------------------- shutdown
\* lock_guard; isRunning_ = false
ShutdownSignal ==
    /\ Alive
    /\ shutdownPc = "idle"
    /\ mutex = Free
    /\ isRunning' = FALSE
    /\ shutdownPc' = "notify"
    /\ UNCHANGED <<platform, counter, tasks, submitPc, taskMap, taskQueue, mutex,
                   activeThreads, pc, cur, waiting, now, what, last, log>>

\* condition_.notify_all()
ShutdownNotify ==
    /\ Alive
    /\ shutdownPc = "notify"
    /\ waiting' = {}
    /\ shutdownPc' = "join"
    /\ UNCHANGED <<platform, counter, tasks, submitPc, taskMap, taskQueue, mutex, isRunning,
                   activeThreads, pc, cur, now, what, last, log>>

\* Variant that returns without joining the workers (C28 fails under it).
ShutdownReturnsUnjoined ==
    /\ Alive
    /\ shutdownPc = "join"
    /\ shutdownPc' = "returned"
    /\ UNCHANGED <<platform, counter, tasks, submitPc, taskMap, taskQueue, mutex, isRunning,
                   activeThreads, pc, cur, waiting, now, what, last, log>>

\* thread.join() for every worker; return
ShutdownJoin ==
    /\ Alive
    /\ shutdownPc = "join"
    /\ \A w \in Workers : pc[w] = "exited"
    /\ shutdownPc' = "returned"
    /\ UNCHANGED <<platform, counter, tasks, submitPc, taskMap, taskQueue, mutex, isRunning,
                   activeThreads, pc, cur, waiting, now, what, last, log>>

\* -------------------------------------------------------- PlatformManager
\* Type names that callers register and ask for, and the factories they hand
\* in; an object is named after the factory that made it.
DatasetTypes == {"NUMERIC", "TEXT", "IMAGE"}
AlgorithmTypes == {"StatisticalAnalysis", "KMeansClustering", "Regression"}
Factories == {"factoryA", "factoryB"}

ManagerVars == <<counter, tasks, submitPc, taskMap, taskQueue, mutex, isRunning,
                 activeThreads, pc, cur, waiting, shutdownPc, now, what, last, log>>

Returned(op, type, result) == [op |-> op, type |-> type, result |-> result]

\* map[type] = factory
Registered(map, type, factory) ==
    [n \in DOMAIN map \cup {type} |-> IF n = type THEN factory ELSE map[n]]

\* Variant without the find: a second registration replaces the first (C22
\* fails under it).
RegisterDatasetTypeOverwrites(type, factory) ==
    /\ platform' = [platform EXCEPT
          !.datasetFactories = Registered(@, type, factory),
          !.returned = Returned("registerDatasetType", type, "void")]
    /\ UNCHANGED ManagerVars

RegisterDatasetType(type, factory) ==
    /\ platform' =
          IF type \in DOMAIN platform.datasetFactories
          THEN [platform EXCEPT
                  !.returned = Returned("registerDatasetType", type, "PlatformException")]
          ELSE [platform EXCEPT
                  !.datasetFactories = Registered(@, type, factory),
                  !.returned = Returned("registerDatasetType", type, "void")]
    /\ UNCHANGED ManagerVars

RegisterAlgorithmType(type, factory) ==
    /\ platform' =
          IF type \in DOMAIN platform.algorithmFactories
          THEN [platform EXCEPT
                  !.returned = Returned("registerAlgorithmType", type, "PlatformException")]
          ELSE [platform EXCEPT
                  !.algorithmFactories = Registered(@, type, factory),
                  !.returned = Returned("registerAlgorithmType", type, "void")]
    /\ UNCHANGED ManagerVars

\* PlatformManager::createDataset: it->second(), or the exception
CreateDataset(type) ==
    /\ platform' = [platform EXCEPT !.returned =
          Returned("createDataset", type,
                   IF type \in DOMAIN platform.datasetFactories
                   THEN platform.datasetFactories[type]
                   ELSE "PlatformException")]
    /\ UNCHANGED ManagerVars

CreateAlgorithm(type) ==
    /\ platform' = [platform EXCEPT !.returned =
          Returned("createAlgorithm", type,
                   IF type \in DOMAIN platform.algorithmFactories
                   THEN platform.algorithmFactories[type]
                   ELSE "PlatformException")]
    /\ UNCHANGED ManagerVars

\* DatasetFactory::createDataset and AlgorithmFactory::createAlgorithm: the
\* class made for a built-in type name, or the exception.
DatasetFactoryCreate(type) ==
    CASE type = "NUMERIC" -> "NumericDataset"
      [] type = "TEXT" -> "TextDataset"
      [] OTHER -> "PlatformException"

AlgorithmFactoryCreate(type) ==
    CASE type = "StatisticalAnalysis" -> "StatisticalAnalysis"
      [] type = "KMeansClustering" -> "KMeansClusteringAlgorithm"
      [] type = "TextAnalysis" -> "TextAnalysisAlgorithm"
      [] OTHER -> "PlatformException"

FactoryCreateDataset(type) ==
    /\ platform' = [platform EXCEPT !.returned =
          Returned("DatasetFactory::createDataset", type, DatasetFactoryCreate(type))]
    /\ UNCHANGED ManagerVars

FactoryCreateAlgorithm(type) ==
    /\ platform' = [platform EXCEPT !.returned =
          Returned("AlgorithmFactory::createAlgorithm", type, AlgorithmFactoryCreate(type))]
    /\ UNCHANGED ManagerVars

\* ---------------------------------------------------------- specifications
\* submitTask called by any number of threads at once
Submit(inputs, limit) ==
    \/ \E s \in inputs : SubmitCreate(s.priority, s.isAsync, s.req, limit)
    \/ \E t \in TaskIds : SubmitLock(t)
    \/ \E t \in TaskIds : SubmitPush(t)
    \/ \E t \in TaskIds : SubmitReturn(t)

\* submitTask called by one thread, each call after the one before returned
SubmitInTurn(inputs, limit) ==
    \/ /\ \A t \in DOMAIN submitPc : submitPc[t] = "returned"
       /\ \E s \in inputs : SubmitCreate(s.priority, s.isAsync, s.req, limit)
    \/ \E t \in TaskIds : SubmitLock(t)
    \/ \E t \in TaskIds : SubmitPush(t)
    \/ \E t \in TaskIds : SubmitReturn(t)

Api(ids) ==
    \/ \E id \in ids : GetTaskStatus(id)
    \/ \E id \in ids : GetTaskResult(id)
    \/ \E id \in ids : CancelRead(id)
    \/ \E id \in ids : CancelWrite(id)

\* shutdown() and the exits of the worker loops that it brings about
Shutdown ==
    \/ ShutdownSignal
    \/ ShutdownNotify
    \/ ShutdownJoin
    \/ \E w \in Workers : WorkerExit(w)

Init == Constructed(NumWorkers, FALSE)

StatisticsRequest == CHOOSE r \in Requests : r.alg = "StatisticalAnalysis"
KMeansRequest == CHOOSE r \in Requests : r.alg = "KMeansClustering"
TextRequest == CHOOSE r \in Requests : r.alg = "TextAnalysis"

\* Spec: callers submit, query, cancel and shut down while the pool runs.  The
\* queries and cancellations are aimed at the ids 1..MaxQueried.  The clock is
\* not advanced here, so a timestamp tells only whether it was stamped, and no
\* history is kept.
Submissions ==
    { [priority |-> MEDIUM, isAsync |-> FALSE, req |-> StatisticsRequest],
      [priority |-> HIGH, isAsync |-> TRUE, req |-> KMeansRequest],
      [priority |-> LOW, isAsync |-> TRUE, req |-> TextRequest] }

Next ==
    \/ Submit(Submissions, MaxTasks)
    \/ \E w \in Workers : Worker(w)
    \/ Api(1..MaxQueried)
    \/ Shutdown

Spec == Init /\ [][Next]_vars

\* SpecOrder: the queue under load.  One caller submits up to MaxQueued tasks
\* of every priority, one call after the other, while the clock advances and a
\* pool of OrderWorkers threads drains the queue; every insertion into and
\* removal from taskQueue_ is logged.
OrderSubmissions ==
    { [priority |-> LOW, isAsync |-> FALSE, req |-> StatisticsRequest],
      [priority |-> MEDIUM, isAsync |-> FALSE, req |-> KMeansRequest],
      [priority |-> HIGH, isAsync |-> FALSE, req |-> TextRequest],
      [priority |-> CRITICAL, isAsync |-> FALSE, req |-> StatisticsRequest] }

InitOrder == Constructed(OrderWorkers, TRUE)

NextOrder ==
    \/ Tick
    \/ SubmitInTurn(OrderSubmissions, MaxQueued)
    \/ \E w \in Workers : Worker(w)

SpecOrder == InitOrder /\ [][NextOrder]_vars

\* Plugin algorithms, a pool of NumWorkers threads and shutdown.  A call that
\* has started goes on (submitTask and shutdown are not suspended for ever)
\* and every worker thread keeps being scheduled; nobody has to call
\* submitTask or shutdown.
PluginRequest(alg) ==
    [alg |-> alg, dataset |-> [kind |-> "NUMERIC", size |-> 5], parameters |-> NoParams]

PluginSubmissions ==
    { [priority |-> MEDIUM, isAsync |-> FALSE, req |-> StatisticsRequest] }
    \cup { [priority |-> HIGH, isAsync |-> FALSE, req |-> PluginRequest(alg)] :
              alg \in PluginAlgorithms }

InitPlugin == Constructed(NumWorkers, FALSE)

NextPlugin ==
    \/ Submit(PluginSubmissions, MaxTasks)
    \/ \E w \in Workers : Worker(w)
    \/ \E w \in Workers : ExecEscape(w)
    \/ Shutdown

Scheduling ==
    /\ \A w \in 1..NumWorkers : WF_vars(Worker(w) \/ WorkerExit(w) \/ ExecEscape(w))
    /\ WF_vars(\E t \in TaskIds : SubmitLock(t) \/ SubmitPush(t) \/ SubmitReturn(t))
    /\ WF_vars(ShutdownNotify \/ ShutdownJoin)

SpecPlugin == InitPlugin /\ [][NextPlugin]_vars /\ Scheduling

\* SpecDrain: as Spec, with callers that begin no submitTask and insert no
\* task once shutdown() has lowered isRunning_.
SubmitWhileRunning(inputs, limit) ==
    \/ isRunning /\ \E s \in inputs : SubmitCreate(s.priority, s.isAsync, s.req, limit)
    \/ isRunning /\ \E t \in TaskIds : SubmitLock(t)
    \/ \E t \in TaskIds : SubmitPush(t)
    \/ \E t \in TaskIds : SubmitReturn(t)

NextDrain ==
    \/ SubmitWhileRunning(Submissions, MaxTasks)
    \/ \E w \in Workers : Worker(w)
    \/ Api(1..MaxQueried)
    \/ Shutdown

SpecDrain == Init /\ [][NextDrain]_vars

\* SpecFifo: several threads call submitTask at once while the clock advances
\* and one worker drains the queue; the history of the queue is kept.
FifoSubmissions ==
    { [priority |-> MEDIUM, isAsync |-> FALSE, req |-> StatisticsRequest],
      [priority |-> HIGH, isAsync |-> FALSE, req |-> StatisticsRequest] }

NextFifo ==
    \/ Tick
    \/ Submit(FifoSubmissions, MaxQueued)
    \/ \E w \in Workers : Worker(w)

SpecFifo == InitOrder /\ [][NextFifo]_vars

\* SpecPlatform: one caller registers types with the PlatformManager and
\* creates datasets and algorithms through it and through the two factories.
NextPlatform ==
    \/ \E type \in DatasetTypes, f \in Factories : RegisterDatasetType(type, f)
    \/ \E type \in AlgorithmTypes, f \in Factories : RegisterAlgorithmType(type, f)
    \/ \E type \in DatasetTypes : CreateDataset(type)
    \/ \E type \in AlgorithmTypes : CreateAlgorithm(type)
    \/ \E type \in DatasetTypes : FactoryCreateDataset(type)
    \/ \E type \in AlgorithmTypes \cup {"TextAnalysis"} : FactoryCreateAlgorithm(type)

SpecPlatform == Init /\ [][NextPlatform]_vars

\* ================================================================ claims
\* The ids removed from the queue so far that are in S, in order of removal.
PopIds(S) ==
    LET pops == SelectSeq(log.events, LAMBDA e : e[1] = "pop" /\ e[2] \in S)
    IN  [i \in 1..Len(pops) |-> pops[i][2]]

IsPrefix(s, t) == Len(s) <= Len(t) /\ \A i \in 1..Len(s) : s[i] = t[i]

\* A step removes t from the queue only if no queued task has a higher
\* priority, and none of the same priority an earlier creationTime.
PopIsTop ==
    \A t \in taskQueue :
        t \notin taskQueue' =>
            \A u \in taskQueue :
                /\ tasks[u].priority <= tasks[t].priority
                /\ tasks[u].priority = tasks[t].priority
                     => tasks[t].creationTime <= tasks[u].creationTime

\* A(LOW, t0), B(HIGH, t1), C(HIGH, t2) with t1 < t2, inserted in that order
\* before any removal, leave the queue in the order B, C, A.
ExampleOrder ==
    \A a, b, c \in DOMAIN tasks :
        ( /\ Len(log.events) >= 3
          /\ log.events[1] = <<"push", a>>
          /\ log.events[2] = <<"push", b>>
          /\ log.events[3] = <<"push", c>>
          /\ tasks[a].priority = LOW
          /\ tasks[b].priority = HIGH
          /\ tasks[c].priority = HIGH
          /\ tasks[b].creationTime < tasks[c].creationTime )
        => IsPrefix(PopIds({a, b, c}), <<b, c, a>>)

\* C1: every removal from the queue takes a task of the highest priority
\* queued and, within that priority, of the earliest creationTime; and the
\* submissions A(LOW), B(HIGH), C(HIGH), created at t0 <= t1 < t2 and queued
\* before any removal, are dequeued in the order B, C, A.
C1_DequeueOrder == [][PopIsTop]_vars /\ []ExampleOrder

C1_Witness ==
    /\ log.events = << <<"push", 1>>, <<"push", 2>>, <<"push", 3>>,
                <<"pop", 2>>, <<"pop", 3>>, <<"pop", 1>> >>
    /\ tasks[1].priority = LOW
    /\ tasks[2].priority = HIGH
    /\ tasks[3].priority = HIGH
    /\ tasks[2].creationTime < tasks[3].creationTime

\* A worker has taken t from the queue.
Taken(t) == (\E w \in Workers : cur[w] = t) \/ tasks[t].status # "CREATED"

\* C2: whenever mutex_ is not held by submitTask, so whenever getTaskStatus,
\* getTaskResult, cancelTask or a worker's dequeue can look, a task is in
\* taskMap_ exactly if it is in taskQueue_ or has been dequeued; and once
\* submitTask has returned an id, the id is in taskMap_.
C2_AtomicInsert ==
    \A t \in DOMAIN tasks :
        /\ mutex.holder # "submit" =>
              /\ t \in taskMap <=> (t \in taskQueue \/ Taken(t))
              /\ t \in taskQueue => ~Taken(t)
        /\ submitPc[t] = "returned" => t \in taskMap

C2_Witness ==
    \E t \in DOMAIN tasks :
        /\ submitPc[t] = "returned"
        /\ t \in taskMap /\ t \in taskQueue
        /\ last = Call("getTaskStatus", t, "value")

\* C3 as claimed: while submitTask has not returned, the task it submits is
\* in no terminal status.
C3_ReturnsBeforeTerminal ==
    \A t \in DOMAIN tasks :
        submitPc[t] # "returned" => tasks[t].status \notin Terminal

\* C3, amended: submitTask inserts the task while it is CREATED and never
\* waits for it: once the task is queued, the return is enabled whatever the
\* task's status and whatever isAsync (the task may already be terminal).
C3_SubmitNeverWaits ==
    \A t \in DOMAIN tasks :
        /\ submitPc[t] \in {"created", "locked"} => tasks[t].status = "CREATED"
        /\ submitPc[t] = "pushed" => ENABLED SubmitReturn(t)

C3_Witness ==
    \E t \in DOMAIN tasks :
        /\ submitPc[t] = "pushed"
        /\ ~tasks[t].isAsync
        /\ tasks[t].status \in Terminal

\* A step that is a call of op: it sets `last`.
Called(op) == last' # last /\ last'.op = op

\* C4: getTaskStatus and getTaskResult with an id that is not in taskMap_ end
\* with the "Task not found" exception and change neither the map, the queue
\* nor any task.
C4_UnknownIdNotFound ==
    [][ \A op \in {"getTaskStatus", "getTaskResult"} :
          (Called(op) /\ last'.id \notin taskMap) =>
              /\ last'.outcome = "NotFound"
              /\ UNCHANGED <<tasks, taskMap, taskQueue>> ]_vars

C4_Witness ==
    /\ last = Call("getTaskResult", 1, "NotFound")
    /\ 1 \in DOMAIN tasks
    /\ 1 \notin taskMap

\* C5 as claimed: cancelTask with an id that is not in taskMap_ ends with the
\* NotFound error, as getTaskStatus and getTaskResult do.
C5_CancelUnknownNotFound ==
    [][ (Called("cancelTask") /\ last'.id \notin taskMap) =>
            last'.outcome = "NotFound" ]_vars

\* C6 as claimed: a task in a non-terminal status has a PENDING result.
C6_PendingUntilTerminal ==
    \A t \in DOMAIN tasks :
        tasks[t].status \in NonTerminal => tasks[t].result.status = "PENDING"

\* C7: cancelTask on a task of the map goes on to write exactly if the status
\* it reads is QUEUED or RUNNING; it then sets CANCELLED, stamps endTime_,
\* leaves result and errorMessage alone and returns true; for every other
\* status it returns false and changes no task.
C7_CancelContract ==
    [][ /\ (mutex'.holder = "cancel" /\ mutex.holder # "cancel") =>
              /\ mutex'.id \in taskMap
              /\ tasks[mutex'.id].status \in {"QUEUED", "RUNNING"}
              /\ tasks' = tasks
        /\ (Called("cancelTask") /\ last'.outcome = "true") =>
              /\ mutex = CancelHolder(last'.id)
              /\ tasks'[last'.id].status = "CANCELLED"
              /\ tasks'[last'.id].endTime = now /\ now # 0
              /\ tasks'[last'.id].result = tasks[last'.id].result
              /\ tasks'[last'.id].errorMessage = tasks[last'.id].errorMessage
        /\ (Called("cancelTask") /\ last'.outcome # "true" /\ last'.id \in taskMap) =>
              /\ last'.outcome = "false"
              /\ tasks[last'.id].status \in {"CREATED", "COMPLETED", "FAILED", "CANCELLED"}
              /\ tasks' = tasks ]_vars

C7_Witness ==
    \E t \in taskMap :
        /\ last = Call("cancelTask", t, "true")
        /\ tasks[t].status = "CANCELLED"
        /\ tasks[t].endTime # 0
        /\ \E w \in Workers : cur[w] = t

\* C8 as claimed: from its insertion into the queue until a worker dequeues
\* it, a task's status (what getTaskStatus returns) is QUEUED.
C8_QueuedWhileInQueue ==
    \A t \in taskQueue : mutex = Free => tasks[t].status = "QUEUED"

\* C9: no step takes a task from COMPLETED, FAILED or CANCELLED to CREATED,
\* QUEUED or RUNNING.
C9_NoTerminalToNonTerminal ==
    [][ \A t \in DOMAIN tasks :
          tasks[t].status \in Terminal => tasks'[t].status \in Terminal ]_vars

C9_Witness ==
    \E t \in taskMap :
        /\ last = Call("cancelTask", t, "true")
        /\ tasks[t].status \in {"COMPLETED", "FAILED"}
        /\ \A w \in Workers : cur[w] # t

\* initialize() of t's algorithm, with the configured parameters, returns false.
InitFails(t) ==
    ~Initialize(tasks[t].alg,
                SetParameters(NewAlgorithm(tasks[t].alg), tasks[t].parameters))

\* The worker that ran t is done with it.
Executed(t) ==
    /\ "initialize" \in {tasks[t].calls[i] : i \in DOMAIN tasks[t].calls}
    /\ \A w \in Workers : cur[w] # t

\* C10 as claimed: a task whose initialize() returns false is never COMPLETED,
\* its execute() is never called, and once executed it is FAILED with
\* errorMessage "Algorithm initialization failed".
C10_InitFailureEndsFailed ==
    \A t \in DOMAIN tasks :
        InitFails(t) =>
            /\ tasks[t].status # "COMPLETED"
            /\ "execute" \notin {tasks[t].calls[i] : i \in DOMAIN tasks[t].calls}
            /\ Executed(t) =>
                  /\ tasks[t].status = "FAILED"
                  /\ tasks[t].errorMessage = InitializationFailed

\* The algorithm of t throws from execute.
RaisesError(t) == Raises(tasks[t].alg) # "none"

\* C11 as claimed: an error raised by the algorithm never leaves the worker:
\* no worker is terminated by it or exits while the pool is running, and the
\* task it was raised for, once executed, is FAILED with the error's
\* description as errorMessage.
C11_ErrorsAreCaught ==
    /\ \A w \in Workers :
          /\ pc[w] \notin {"escape", "terminated"}
          /\ pc[w] = "exited" => ~isRunning
    /\ \A t \in DOMAIN tasks :
          (RaisesError(t) /\ Executed(t) /\ "execute" \in {tasks[t].calls[i] : i \in DOMAIN tasks[t].calls}) =>
              /\ tasks[t].status = "FAILED"
              /\ tasks[t].errorMessage = PluginError

\* C12: the step of a worker that follows the assignment of result_ sets the
\* status to COMPLETED if the stored Result, which is the one execute
\* returned, is SUCCESS and to FAILED if it is FAILURE, PENDING or PROCESSING;
\* after FAILED its next step sets errorMessage to the Result's message.
C12_ResultMapsToStatus ==
    [][ \A w \in Workers :
          LET t == cur[w] IN
          /\ (pc[w] = "mapStatus" /\ pc'[w] \in {"stampEnd", "setError"}) =>
                /\ tasks[t].result = Execute(tasks[t].alg, tasks[t].algParams, tasks[t].dataset)
                /\ tasks'[t].result = tasks[t].result
                /\ tasks[t].result.status = "SUCCESS" =>
                      tasks'[t].status = "COMPLETED" /\ pc'[w] = "stampEnd"
                /\ tasks[t].result.status \in {"FAILURE", "PENDING", "PROCESSING"} =>
                      tasks'[t].status = "FAILED" /\ pc'[w] = "setError"
          /\ (pc[w] = "setError" /\ pc'[w] = "stampEnd") =>
                /\ tasks'[t].errorMessage = tasks[t].result.message
                /\ tasks'[t].result = tasks[t].result ]_vars

C12_Witness ==
    \E t \in DOMAIN tasks :
        /\ tasks[t].alg = "ReturnsProcessing"
        /\ Executed(t)
        /\ tasks[t].result.status = "PROCESSING"
        /\ tasks[t].status = "FAILED"
        /\ tasks[t].errorMessage = "still processing"

Running == {t \in DOMAIN tasks : tasks[t].status = "RUNNING"}

\* C13: with a pool of P workers at most P tasks are RUNNING, however many
\* have been submitted, and activeThreads_ never exceeds P.
C13_AtMostPoolSizeRunning ==
    /\ Cardinality(Running) <= Cardinality(Workers)
    /\ activeThreads <= Cardinality(Workers)

C13_Witness ==
    /\ Cardinality(taskQueue) > Cardinality(Workers)
    /\ Cardinality(Running) = Cardinality(Workers)
    /\ activeThreads = Cardinality(Workers)

\* C14: a worker leaves its loop only from the loop's head, holding no task,
\* with isRunning_ false and the queue empty; so a task that a worker was
\* executing when shutdown was requested has been brought to a terminal
\* status and stamped with endTime_ by the time that worker has exited.
C14_ExitOnlyWhenDrained ==
    /\ [][ \A w \in Workers :
              (pc'[w] = "exited" /\ pc[w] # "exited") =>
                  /\ ~isRunning /\ taskQueue = {}
                  /\ pc[w] = "loop" /\ cur[w] = 0 ]_vars
    /\ [](\A t \in DOMAIN tasks :
              (Taken(t) /\ \A w \in Workers : cur[w] # t) =>
                  tasks[t].status \in Terminal /\ tasks[t].endTime # 0)
    /\ [](\A w \in Workers : pc[w] = "exited" => cur[w] = 0 /\ ~isRunning)

C14_Witness ==
    \E w, v \in Workers :
        /\ pc[w] = "exited"
        /\ ~isRunning
        /\ cur[v] # 0
        /\ tasks[cur[v]].status = "RUNNING"
        /\ tasks[cur[v]].endTime = 0

\* C15 as claimed: shutdown returns only when isRunning_ is false and every
\* worker has exited, no worker stays blocked in wait once the flag is down,
\* and a shutdown that has set the flag eventually returns.
C15_ShutdownReturns ==
    /\ [][ (shutdownPc' = "returned" /\ shutdownPc # "returned") =>
              ~isRunning /\ \A w \in Workers : pc[w] = "exited" ]_vars
    /\ \A w \in 1..NumWorkers : (~isRunning /\ w \in waiting) ~> (w \notin waiting)
    /\ (shutdownPc = "notify") ~> (shutdownPc = "returned")

\* C16 as claimed: a task that submitTask has queued before shutdown is
\* requested eventually reaches a terminal status, whatever the other tasks
\* do in initialize() or execute().
C16_QueuedTasksFinish ==
    \A t \in 1..MaxTasks :
        ( /\ t \in DOMAIN tasks
          /\ t \in taskMap
          /\ submitPc[t] \in {"pushed", "returned"}
          /\ shutdownPc = "idle" )
        ~> (t \in DOMAIN tasks /\ tasks[t].status \in Terminal)

\* The positions of Task::execute whose next step writes status_ or endTime_,
\* the fields Task::cancel reads and writes.
WritesCancelFields == {"setRunning", "mapStatus", "catch", "stampEnd"}

\* C17 as claimed: accesses to a task's fields are serialized by mutex_: while
\* cancelTask is inside its critical section, between its read of status_ and
\* its writes of status_ and endTime_, no worker is about to write those
\* fields of the same task; and every write of a task's status, result,
\* endTime or errorMessage is made by the thread that holds mutex_.
C17_AccessesSerialized ==
    /\ [](\A w \in Workers :
             (cur[w] # 0 /\ mutex = CancelHolder(cur[w])) =>
                 pc[w] \notin WritesCancelFields)
    /\ [][ \A t \in DOMAIN tasks :
              ( \/ tasks'[t].status # tasks[t].status
                \/ tasks'[t].result # tasks[t].result
                \/ tasks'[t].endTime # tasks[t].endTime
                \/ tasks'[t].errorMessage # tasks[t].errorMessage )
              => mutex.holder # "free" /\ mutex.id = t /\ mutex' = Free ]_vars

\* execute() of t's algorithm has been called.
Ran(t) == "execute" \in {tasks[t].calls[i] : i \in DOMAIN tasks[t].calls}

\* C18: what getTaskResult returns for a COMPLETED task is the stored result_,
\* and that is the same at every time the task is COMPLETED: it is then the
\* complete Result its algorithm returned (status, message, data and
\* timestamp), a function of the task's algorithm, parameters and dataset,
\* which no step changes once execute() has been called; and no step changes
\* the result of a COMPLETED task.
C18_CompletedResultStable ==
    /\ [](\A t \in DOMAIN tasks :
             tasks[t].status = "COMPLETED" =>
                 /\ Ran(t)
                 /\ tasks[t].result = Execute(tasks[t].alg, tasks[t].algParams, tasks[t].dataset)
                 /\ tasks[t].result.status = "SUCCESS")
    /\ [][ \A t \in DOMAIN tasks :
              /\ tasks[t].status = "COMPLETED" => tasks'[t].result = tasks[t].result
              /\ Ran(t) =>
                    /\ tasks'[t].calls = tasks[t].calls
                    /\ tasks'[t].alg = tasks[t].alg
                    /\ tasks'[t].algParams = tasks[t].algParams
                    /\ tasks'[t].dataset = tasks[t].dataset ]_vars

C18_Witness ==
    \E t \in taskMap :
        /\ tasks[t].status = "COMPLETED"
        /\ tasks[t].result.data = "Statistical Analysis Results"
        /\ last = Call("getTaskResult", t, "value")
        /\ \E u \in taskMap : u # t /\ tasks[u].status \in Terminal

\* C19 as claimed: creationTime <= startTime once startTime_ is set,
\* startTime <= endTime once endTime_ is set, and endTime_ is never set while
\* startTime_ is unset (0 stands for a timestamp that was never assigned).
C19_TimestampsOrdered ==
    \A t \in DOMAIN tasks :
        /\ tasks[t].startTime # 0 => tasks[t].creationTime <= tasks[t].startTime
        /\ tasks[t].endTime # 0 =>
              /\ tasks[t].startTime # 0
              /\ tasks[t].startTime <= tasks[t].endTime

\* C20 as claimed: a task with a non-empty errorMessage has status FAILED.
C20_ErrorMessageOnlyOnFailed ==
    \A t \in DOMAIN tasks :
        tasks[t].errorMessage # "" => tasks[t].status = "FAILED"

\* The dataset of t is of a kind that t's algorithm does not support.
Mismatched(t) ==
    /\ tasks[t].alg \in {"StatisticalAnalysis", "KMeansClustering", "TextAnalysis"}
    /\ tasks[t].dataset.kind # SupportedKind(tasks[t].alg)

\* C21 as claimed: a task whose dataset is of a kind its algorithm does not
\* support is never COMPLETED; execute() returns a FAILURE Result for it, with
\* no error raised, and once executed the task is FAILED with the errorMessage
\* "Dataset type mismatch".
C21_TypeMismatchEndsFailed ==
    \A t \in DOMAIN tasks :
        Mismatched(t) =>
            /\ tasks[t].status # "COMPLETED"
            /\ \A w \in Workers : cur[w] = t => pc[w] \notin {"catch", "catchMessage", "escape"}
            /\ Executed(t) =>
                  /\ Ran(t)
                  /\ tasks[t].result.status = "FAILURE"
                  /\ tasks[t].result.message = "Dataset type mismatch"
                  /\ tasks[t].status = "FAILED"
                  /\ tasks[t].errorMessage = "Dataset type mismatch"

\* The call that a step makes on the PlatformManager or a factory.
Made(op) == platform' # platform /\ platform'.returned.op = op

Registrations == <<platform.datasetFactories, platform.algorithmFactories>>

\* C22: registering a type name that is already registered ends with the
\* exception and changes no registration; creating for a type name that is not
\* registered (for the factories: not built in) ends with the exception, so
\* nothing is created, and changes no registration.
C22_RegistryErrors ==
    [][ LET call == platform'.returned IN
        /\ (Made("registerDatasetType") /\ call.type \in DOMAIN platform.datasetFactories) =>
              call.result = "PlatformException" /\ UNCHANGED Registrations
        /\ (Made("registerAlgorithmType") /\ call.type \in DOMAIN platform.algorithmFactories) =>
              call.result = "PlatformException" /\ UNCHANGED Registrations
        /\ (Made("createDataset") /\ call.type \notin DOMAIN platform.datasetFactories) =>
              call.result = "PlatformException" /\ UNCHANGED Registrations
        /\ (Made("createAlgorithm") /\ call.type \notin DOMAIN platform.algorithmFactories) =>
              call.result = "PlatformException" /\ UNCHANGED Registrations
        /\ (Made("DatasetFactory::createDataset") /\ call.type \notin {"NUMERIC", "TEXT"}) =>
              call.result = "PlatformException" /\ UNCHANGED Registrations
        /\ (Made("AlgorithmFactory::createAlgorithm")
               /\ call.type \notin {"StatisticalAnalysis", "KMeansClustering", "TextAnalysis"}) =>
              call.result = "PlatformException" /\ UNCHANGED Registrations ]_vars

C22_Witness ==
    /\ platform.returned = Returned("registerDatasetType", "NUMERIC", "PlatformException")
    /\ "NUMERIC" \in DOMAIN platform.datasetFactories
    /\ platform.datasetFactories["NUMERIC"] = "factoryA"
    /\ "TEXT" \in DOMAIN platform.datasetFactories
    /\ DOMAIN platform.algorithmFactories # {}

\* cancelTask(id) returns in this step.
CancelReturns(id) == (CancelRead(id) \/ CancelWrite(id)) /\ mutex' = Free

\* C23 as claimed: a cancelTask on a task that is in taskQueue_ leaves the
\* task CANCELLED and the queue as it was.
C23_CancelQueuedSetsCancelled ==
    [][ \A id \in taskQueue :
          CancelReturns(id) =>
              /\ tasks'[id].status = "CANCELLED"
              /\ taskQueue' = taskQueue ]_vars

\* The part of C23 that holds: no step of cancelTask changes taskQueue_.
CancelKeepsQueue ==
    [][ \A id \in TaskIds :
          (CancelRead(id) \/ CancelWrite(id)) => taskQueue' = taskQueue ]_vars

\* The calls Task::execute makes on the task's algorithm, in order.
ExpectedCalls(t) ==
    LET applied == SetParameters(NewAlgorithm(tasks[t].alg), tasks[t].parameters)
    IN  [i \in 1..Cardinality(tasks[t].parameters) |-> "setParameter"]
          \o <<"initialize">>
          \o (IF Initialize(tasks[t].alg, applied) THEN <<"execute">> ELSE <<>>)

\* C24: the calls made on a task's algorithm are, in this order, setParameter
\* once per entry of config.parameters, initialize(), and execute(dataset) only
\* if initialize returned true; when the first of them is made the status has
\* been set to RUNNING and startTime_ stamped, and when initialize is called
\* every configured parameter has been applied.
C24_StepsInOrder ==
    \A t \in DOMAIN tasks :
        /\ IsPrefix(tasks[t].calls, ExpectedCalls(t))
        /\ tasks[t].calls # <<>> =>
              /\ tasks[t].status # "CREATED"
              /\ tasks[t].startTime # 0
              /\ tasks[t].algParams =
                    SetParameters(NewAlgorithm(tasks[t].alg), tasks[t].parameters)
        /\ (\E w \in Workers : cur[w] = t /\ pc[w] \in {"setRunning", "stampStart", "prepare"}) =>
              tasks[t].calls = <<>>

C24_Witness ==
    \E t, u \in DOMAIN tasks :
        /\ tasks[t].calls = <<"setParameter", "initialize">>
        /\ tasks[t].parameters # NoParams
        /\ tasks[u].calls = <<"initialize", "execute">>
        /\ Executed(t) /\ Executed(u)

\* C25: the step by which a worker comes back to the head of its loop, where
\* it waits for or dequeues its next task, is the return from Task::execute on
\* a task it holds, and at that step the task's endTime_ has been stamped and
\* its status is COMPLETED, FAILED or CANCELLED.
C25_EndStampedBeforeNextTask ==
    [][ \A w \in Workers :
          (pc[w] # "loop" /\ pc'[w] = "loop") =>
              /\ cur[w] \in DOMAIN tasks
              /\ tasks'[cur[w]].endTime # 0
              /\ tasks'[cur[w]].endTime = now
              /\ tasks'[cur[w]].status \in Terminal ]_vars

C25_Witness ==
    \E t, u \in DOMAIN tasks :
        /\ Executed(t) /\ Executed(u)
        /\ tasks[t].status = "FAILED"
        /\ tasks[t].errorMessage = InitializationFailed
        /\ tasks[t].endTime # 0
        /\ tasks[u].status = "COMPLETED"
        /\ tasks[u].endTime # 0
        /\ waiting # {}

\* C26 as claimed: no step changes a status that is COMPLETED, FAILED or
\* CANCELLED.
C26_TerminalIsFinal ==
    [][ \A t \in DOMAIN tasks :
          tasks[t].status \in Terminal => tasks'[t].status = tasks[t].status ]_vars

\* What holds instead of C26: a step changes a terminal status only from
\* CANCELLED to the worker's COMPLETED or FAILED, or from the worker's COMPLETED
\* or FAILED to the CANCELLED of a cancelTask that read RUNNING before.
TerminalChangesOnlyByRace ==
    [][ \A t \in DOMAIN tasks :
          (tasks[t].status \in Terminal /\ tasks'[t].status # tasks[t].status) =>
              \/ /\ tasks[t].status = "CANCELLED"
                 /\ tasks'[t].status \in {"COMPLETED", "FAILED"}
                 /\ \E w \in Workers : cur[w] = t
              \/ /\ tasks[t].status \in {"COMPLETED", "FAILED"}
                 /\ tasks'[t].status = "CANCELLED"
                 /\ mutex = CancelHolder(t) ]_vars

\* C27: a step in which a worker obtains task t takes it out of taskQueue_,
\* and t was not obtained by any worker before; a step that puts t into
\* taskQueue_ is the push of t's own submitTask, before which no worker has
\* obtained t.  So every task is dequeued at most once, and by one worker.
C27_DequeuedAtMostOnce ==
    [][ \A t \in DOMAIN tasks :
          /\ (\E w \in Workers : cur'[w] = t /\ cur[w] # t) =>
                /\ t \in taskQueue /\ t \notin taskQueue'
                /\ ~Taken(t)
                /\ Cardinality({w \in Workers : cur'[w] = t}) = 1
          /\ (t \in taskQueue' /\ t \notin taskQueue) =>
                /\ submitPc[t] = "locked" /\ submitPc'[t] = "pushed"
                /\ ~Taken(t) ]_vars

C27_Witness ==
    \E t, u \in DOMAIN tasks :
        /\ t # u
        /\ \E w \in Workers : cur[w] = t
        /\ \E w \in Workers : cur[w] = u
        /\ taskQueue = {}

\* C28: when shutdown() has returned and no task was inserted after it lowered
\* isRunning_, taskQueue_ is empty and every submitted task has been dequeued
\* and executed: no worker holds it, its algorithm was called, its endTime_ is
\* stamped and its status is COMPLETED, FAILED or CANCELLED.
C28_ShutdownDrainsQueue ==
    shutdownPc = "returned" =>
        /\ taskQueue = {}
        /\ \A t \in taskMap :
              /\ Executed(t)
              /\ tasks[t].status \in Terminal
              /\ tasks[t].endTime # 0

C28_Witness ==
    /\ shutdownPc = "returned"
    /\ Cardinality(taskMap) = MaxTasks
    /\ \A t \in taskMap : Executed(t) /\ tasks[t].status \in Terminal
    /\ \E t \in taskMap : tasks[t].status = "COMPLETED"

\* C29: once shutdown() has returned, every worker has left its loop; a
\* submitTask call can still begin and goes through each of its steps (the insertion into
\* taskMap_, the push, the return of the id) as soon as mutex_ is free; a task
\* that no worker obtained before is never obtained: it stays in taskQueue_
\* once pushed, and no step changes its status CREATED, its PENDING result or
\* any other field; and getTaskStatus and getTaskResult on an inserted task
\* return a value.
C29_SubmitAfterShutdown ==
    /\ [](shutdownPc = "returned" =>
            /\ \A w \in Workers : pc[w] = "exited" /\ cur[w] = 0
            /\ counter < MaxTasks =>
                  \A s \in Submissions :
                      ENABLED SubmitCreate(s.priority, s.isAsync, s.req, MaxTasks)
            /\ \A t \in DOMAIN tasks :
                  /\ (submitPc[t] = "created" /\ mutex = Free) => ENABLED SubmitLock(t)
                  /\ submitPc[t] = "locked" => ENABLED SubmitPush(t)
                  /\ submitPc[t] = "pushed" => ENABLED SubmitReturn(t)
                  /\ submitPc[t] \in {"pushed", "returned"} =>
                        /\ t \in taskMap
                        /\ t \in taskQueue \/ Taken(t)
                  /\ ~Taken(t) =>
                        /\ tasks[t].status = "CREATED"
                        /\ tasks[t].result = NewResult
                        /\ tasks[t].result.status = "PENDING")
    /\ [][ shutdownPc = "returned" =>
             /\ pc' = pc /\ cur' = cur
             /\ \A t \in DOMAIN tasks :
                   ~Taken(t) =>
                       /\ tasks'[t] = tasks[t]
                       /\ t \in taskQueue => t \in taskQueue'
             /\ \A id \in taskMap :
                   (GetTaskStatus(id) \/ GetTaskResult(id)) => last'.outcome = "value" ]_vars

C29_Witness ==
    \E t \in taskQueue :
        /\ shutdownPc = "returned"
        /\ counter = 1
        /\ submitPc[t] = "returned"
        /\ tasks[t].status = "CREATED"
        /\ last = Call("getTaskResult", t, "value")

\* The place of event e in the history (0: it has not happened).
EventIndex(e) ==
    IF \E i \in DOMAIN log.events : log.events[i] = e
    THEN CHOOSE i \in DOMAIN log.events : log.events[i] = e
    ELSE 0

\* C30 as claimed: of two tasks of equal priority, the one that was pushed
\* into taskQueue_ first is not still in the queue when the other is removed.
C30_FifoByInsertion ==
    \A t, u \in DOMAIN tasks :
        ( /\ t # u
          /\ tasks[t].priority = tasks[u].priority
          /\ EventIndex(<<"push", t>>) # 0
          /\ EventIndex(<<"push", t>>) < EventIndex(<<"push", u>>)
          /\ EventIndex(<<"pop", u>>) # 0 ) =>
            /\ EventIndex(<<"pop", t>>) # 0
            /\ EventIndex(<<"pop", t>>) < EventIndex(<<"pop", u>>)

\* What holds instead of C30: of two tasks of equal priority, the one with
\* the strictly earlier creationTime_ is not still in the queue when the other
\* is removed after both were pushed.
FifoByCreationTime ==
    \A t, u \in DOMAIN tasks :
        ( /\ tasks[t].priority = tasks[u].priority
          /\ tasks[t].creationTime < tasks[u].creationTime
          /\ EventIndex(<<"push", t>>) # 0
          /\ EventIndex(<<"pop", u>>) # 0
          /\ EventIndex(<<"push", t>>) < EventIndex(<<"pop", u>>) ) =>
            /\ EventIndex(<<"pop", t>>) # 0
            /\ EventIndex(<<"pop", t>>) < EventIndex(<<"pop", u>>)

\* A task in taskQueue_ is in taskMap_ and untouched: CREATED, the default
\* PENDING Result, startTime_ and endTime_ not set.
QueuedIsUntouched(t) ==
    t \in taskQueue =>
        /\ t \in taskMap
        /\ tasks[t].status = "CREATED"
        /\ tasks[t].result = NewResult
        /\ tasks[t].result.status = "PENDING"
        /\ tasks[t].startTime = 0
        /\ tasks[t].endTime = 0

\* C31 as claimed: every task in taskQueue_ is in taskMap_ and untouched, and
\* every task in taskMap_ whose status is CREATED is in taskQueue_ (read at the
\* states in which submitTask does not hold mutex_).
C31_CreatedIffQueued ==
    \A t \in DOMAIN tasks :
        /\ QueuedIsUntouched(t)
        /\ (mutex.holder # "submit" /\ t \in taskMap /\ tasks[t].status = "CREATED") =>
              t \in taskQueue

\* C31, amended: every task in taskQueue_ is in taskMap_ and untouched; a task
\* in taskMap_ whose status is CREATED is in taskQueue_, or its submitTask
\* holds mutex_ between the insertion and the push, or one worker has dequeued
\* it and not yet set RUNNING; and no step removes a record from taskMap_.
C31_CreatedIsQueuedOrJustTaken ==
    /\ [](\A t \in DOMAIN tasks :
             /\ QueuedIsUntouched(t)
             /\ (t \in taskMap /\ tasks[t].status = "CREATED") =>
                   \/ t \in taskQueue
                   \/ mutex = SubmitHolder(t) /\ submitPc[t] = "locked"
                   \/ \E w \in Workers : cur[w] = t /\ pc[w] = "setRunning")
    /\ [][taskMap \subseteq taskMap']_vars

C31_Witness ==
    \E t \in taskMap :
        /\ tasks[t].status = "CREATED"
        /\ t \notin taskQueue
        /\ \E w \in Workers : cur[w] = t /\ pc[w] = "setRunning"
        /\ last = Call("getTaskStatus", t, "value")
        /\ \E u \in taskQueue : u # t
====
